---- MODULE Spec2Model ----
(***************************************************************************)
(* One Ring task manager: the file-backed record store (StorageManager)    *)
(* and the tool handlers (TaskManagerHandlers) layered on it.              *)
(*                                                                         *)
(* An in-memory entity is a record over all fields of its schema; every    *)
(* field holds an option value: None for a JavaScript undefined / missing  *)
(* key, Some(v) for a present value.  A stored file is "absent", "garbage" *)
(* (bytes JSON.parse rejects) or "json" with the parsed object, a function *)
(* from the keys present in the text to their raw values.                  *)
(***************************************************************************)
EXTENDS Integers, Sequences, FiniteSets, TLC

(* ------------------------------ bounds --------------------------------- *)
\* number of identifiers generateId() hands out in a run
MaxIds == 4
\* largest value of the wall clock
MaxClock == 2
\* longest list of subtask specifications one decomposeTask call carries
MaxSubtasks == 2
\* number of steps of a run that change the store or the clock
MaxSteps == 4
\* the number of task files in the stores reports are computed from
MaxTasks == 6

VARIABLES
  projectFiles,  \* data/projects/<id>.json, by id
  taskFiles,     \* data/tasks/<id>.json, by id
  clock,         \* the wall clock read by getCurrentTimestamp()
  nextId,        \* the next identifier generateId() returns
  ret,           \* the last call: operation, arguments and outcome
  decomposed,    \* per parent id, the child ids the successful decomposeTask calls returned, in call order
  steps,         \* steps so far that changed the store or the clock
  pending,       \* the fs.writeFile in progress (concurrent specification)
  job            \* the decomposeTask call suspended between two saves (concurrent specification)

vars == <<projectFiles, taskFiles, clock, nextId, ret, decomposed, steps, pending, job>>

(* --------------------------- option values ----------------------------- *)
None == {}
Some(v) == {v}
Val(o) == CHOOSE v \in o : TRUE

\* a ?? b
Coalesce(a, b) == IF a = None THEN b ELSE a

\* args.k of a request object
Arg(args, k) == IF k \in DOMAIN args THEN Some(args[k]) ELSE None

(* ------------------------------ schemas -------------------------------- *)
ProjectStatus == {"planning", "in_progress", "on_hold", "completed", "cancelled"}
TaskStatus == {"todo", "in_progress", "blocked", "review", "done", "cancelled"}
Priority == {"low", "medium", "high", "critical"}

TaskFields ==
  {"id", "projectId", "title", "description", "status", "priority", "subtasks",
   "dependencies", "estimatedHours", "actualHours", "assignee", "tags",
   "created", "updated", "dueDate", "notes"}
TaskRequired ==
  {"id", "projectId", "title", "description", "status", "priority", "created", "updated"}

ProjectFields ==
  {"id", "name", "description", "prd", "tasks", "status", "created", "updated",
   "tags", "repository", "documentation"}
ProjectRequired ==
  {"id", "name", "description", "prd", "status", "created", "updated"}

\* the PRD objects a caller sends; "prd" satisfies PRDSchema, "noTimeline" does not
ValidPRDs == {"prd"}

\* TaskSchema.safeParse(e).success
TaskSchemaOk(e) ==
  /\ \A f \in TaskRequired : e[f] # None
  /\ e.status \subseteq TaskStatus
  /\ e.priority \subseteq Priority

\* ProjectSchema.safeParse(e).success
ProjectSchemaOk(e) ==
  /\ \A f \in ProjectRequired : e[f] # None
  /\ e.status \subseteq ProjectStatus
  /\ e.prd \subseteq ValidPRDs

(* --------------------------- serialization ----------------------------- *)
\* JSON.stringify(validated): keys whose value is undefined are not written
Stringify(e) == [k \in {f \in DOMAIN e : e[f] # None} |-> Val(e[k])]

\* Schema.parse(JSON.parse(content)) for the keys of a schema
ParseAs(fields, data) ==
  [f \in fields |-> IF f \in DOMAIN data THEN Some(data[f]) ELSE None]

NoData == [k \in {} |-> 0]
Absent == [kind |-> "absent", data |-> NoData]
Garbage == [kind |-> "garbage", data |-> NoData]
Json(d) == [kind |-> "json", data |-> d]

Ids == 1 .. MaxIds
\* an identifier generateId() never returned
BogusId == 0

\* fs.readFile(path.join(dir, id + '.json'))
ReadFile(files, id) == IF id \in DOMAIN files THEN files[id] ELSE Absent

Result(outcome, value, error) == [outcome |-> outcome, value |-> value, error |-> error]
Value(v) == Result("value", v, "")
Null == Result("null", NoData, "")
Throw(e) == Result("error", NoData, e)

(* ----------------------------- StorageManager -------------------------- *)
\* TaskSchema.parse(JSON.parse(content)) of a file that exists
ParseTaskFile(f) ==
  LET e == ParseAs(TaskFields, f.data)
  IN  IF f.kind = "garbage" THEN Throw("SyntaxError")
      ELSE IF ~TaskSchemaOk(e) THEN Throw("ZodError")
      ELSE Value(e)

\* ProjectSchema.parse(JSON.parse(content)) of a file that exists
ParseProjectFile(f) ==
  LET e == ParseAs(ProjectFields, f.data)
  IN  IF f.kind = "garbage" THEN Throw("SyntaxError")
      ELSE IF ~ProjectSchemaOk(e) THEN Throw("ZodError")
      ELSE Value(e)

\* getTask with a catch that returns null for every error
StorageGetTaskSwallows(files, id) ==
  IF ReadFile(files, id).kind = "absent" \/ ParseTaskFile(ReadFile(files, id)).outcome = "error"
  THEN Null
  ELSE ParseTaskFile(ReadFile(files, id))

\* getTask: ENOENT gives null, any other error is rethrown
StorageGetTask(files, id) ==
  IF ReadFile(files, id).kind = "absent" THEN Null ELSE ParseTaskFile(ReadFile(files, id))

\* getProject: ENOENT gives null, any other error is rethrown
StorageGetProject(files, id) ==
  IF ReadFile(files, id).kind = "absent" THEN Null ELSE ParseProjectFile(ReadFile(files, id))

\* fs.readdir: the ids that have a file, in directory order
RECURSIVE ReadDir(_, _)
ReadDir(files, from) ==
  IF from \notin DOMAIN files THEN <<>>
  ELSE (IF files[from].kind # "absent" THEN <<from>> ELSE <<>>) \o ReadDir(files, from + 1)

\* a listing returned in the order of the directory, without the sort
Unsorted(s) == s

\* Array.prototype.sort((a, b) => b.updated - a.updated), which is stable
RECURSIVE InsertByUpdated(_, _)
InsertByUpdated(x, sorted) ==
  IF sorted = <<>> THEN <<x>>
  ELSE IF Val(Head(sorted).updated) >= Val(x.updated)
       THEN <<Head(sorted)>> \o InsertByUpdated(x, Tail(sorted))
       ELSE <<x>> \o sorted

RECURSIVE SortByUpdatedDesc(_)
SortByUpdatedDesc(s) ==
  IF s = <<>> THEN <<>>
  ELSE InsertByUpdated(s[Len(s)], SortByUpdatedDesc(SubSeq(s, 1, Len(s) - 1)))

\* the read loop of listTasks: the first file that fails to parse or validate
\* throws out of the loop; filter.projectId is undefined (None) or a string
RECURSIVE ReadTasks(_, _, _)
ReadTasks(files, names, projectId) ==
  IF names = <<>> THEN Value(<<>>)
  ELSE LET one == ParseTaskFile(files[Head(names)])
           rest == ReadTasks(files, Tail(names), projectId)
       IN  IF one.outcome = "error" THEN one
           ELSE IF rest.outcome = "error" THEN rest
           ELSE IF projectId = None \/ one.value.projectId = projectId
                THEN Value(<<one.value>> \o rest.value)
                ELSE rest

\* the read loop of listProjects
RECURSIVE ReadProjects(_, _)
ReadProjects(files, names) ==
  IF names = <<>> THEN Value(<<>>)
  ELSE LET one == ParseProjectFile(files[Head(names)])
           rest == ReadProjects(files, Tail(names))
       IN  IF one.outcome = "error" THEN one
           ELSE IF rest.outcome = "error" THEN rest
           ELSE Value(<<one.value>> \o rest.value)

StorageListTasks(files, projectId) ==
  LET read == ReadTasks(files, ReadDir(files, 1), projectId)
  IN  IF read.outcome = "error" THEN read ELSE Value(SortByUpdatedDesc(read.value))

StorageListProjects(files) ==
  LET read == ReadProjects(files, ReadDir(files, 1))
  IN  IF read.outcome = "error" THEN read ELSE Value(SortByUpdatedDesc(read.value))

\* fs.unlink of the files of a set of ids
Unlink(files, ids) == [i \in DOMAIN files |-> IF i \in ids THEN Absent ELSE files[i]]

\* deleteTask unlinking the files of the task's subtasks with it
StorageDeleteTaskCascades(files, id) ==
  IF ReadFile(files, id).kind = "absent"
  THEN [taskFiles |-> files, result |-> Value(FALSE)]
  ELSE LET subtasks == IF files[id].kind = "json" THEN files[id].data.subtasks ELSE <<>>
       IN  [taskFiles |-> Unlink(files, {id} \cup {subtasks[k] : k \in DOMAIN subtasks}),
            result |-> Value(TRUE)]

\* deleteTask: the new task files and the returned boolean
StorageDeleteTask(files, id) ==
  IF ReadFile(files, id).kind = "absent"
  THEN [taskFiles |-> files, result |-> Value(FALSE)]
  ELSE [taskFiles |-> Unlink(files, {id}), result |-> Value(TRUE)]

SeqRange(s) == {s[i] : i \in DOMAIN s}

\* deleteProject without the cascade to the project's tasks
StorageDeleteProjectKeepsTasks(pfiles, tfiles, id) ==
  IF ReadFile(pfiles, id).kind = "absent"
  THEN [projectFiles |-> pfiles, taskFiles |-> tfiles, result |-> Value(FALSE)]
  ELSE [projectFiles |-> Unlink(pfiles, {id}), taskFiles |-> tfiles, result |-> Value(TRUE)]

\* deleteProject deleting the tasks of the id before it looks for the project file
StorageDeleteProjectSweeps(pfiles, tfiles, id) ==
  LET tasks == StorageListTasks(tfiles, Some(id))
      doomed == {Val(t.id) : t \in SeqRange(tasks.value)}
      swept == IF tasks.outcome = "error" THEN tfiles ELSE Unlink(tfiles, doomed)
  IN  IF ReadFile(pfiles, id).kind = "absent"
      THEN [projectFiles |-> pfiles, taskFiles |-> swept, result |-> Value(FALSE)]
      ELSE IF tasks.outcome = "error"
      THEN [projectFiles |-> Unlink(pfiles, {id}), taskFiles |-> tfiles, result |-> tasks]
      ELSE [projectFiles |-> Unlink(pfiles, {id}), taskFiles |-> swept, result |-> Value(TRUE)]

\* deleteProject: unlink the project file, then list and delete its tasks
StorageDeleteProject(pfiles, tfiles, id) ==
  LET tasks == StorageListTasks(tfiles, Some(id))
      doomed == {Val(t.id) : t \in SeqRange(tasks.value)}
  IN  IF ReadFile(pfiles, id).kind = "absent"
      THEN [projectFiles |-> pfiles, taskFiles |-> tfiles, result |-> Value(FALSE)]
      ELSE IF tasks.outcome = "error"
      THEN [projectFiles |-> Unlink(pfiles, {id}), taskFiles |-> tfiles, result |-> tasks]
      ELSE [projectFiles |-> Unlink(pfiles, {id}), taskFiles |-> Unlink(tfiles, doomed),
            result |-> Value(TRUE)]

\* saveTask writing the task as it is, without TaskSchema.parse
StorageSaveTaskUnchecked(files, task) ==
  [files |-> [files EXCEPT ![Val(task.id)] = Json(Stringify(task))], result |-> Value(task)]

\* saveTask: TaskSchema.parse, then fs.writeFile of JSON.stringify(validated)
StorageSaveTask(files, task) ==
  IF ~TaskSchemaOk(task) THEN [files |-> files, result |-> Throw("ZodError")]
  ELSE [files |-> [files EXCEPT ![Val(task.id)] = Json(Stringify(task))],
        result |-> Value(task)]

\* saveProject: ProjectSchema.parse, then fs.writeFile of JSON.stringify(validated)
StorageSaveProject(files, project) ==
  IF ~ProjectSchemaOk(project) THEN [files |-> files, result |-> Throw("ZodError")]
  ELSE [files |-> [files EXCEPT ![Val(project.id)] = Json(Stringify(project))],
        result |-> Value(project)]

(* --------------------------- TaskManagerHandlers ----------------------- *)
\* createProject taking the status from the request
NewProjectTakesStatus(id, args, now) ==
  [id |-> Some(id),
   name |-> Arg(args, "name"),
   description |-> Arg(args, "description"),
   prd |-> Arg(args, "prd"),
   tasks |-> Some(<<>>),
   status |-> Coalesce(Arg(args, "status"), Some("planning")),
   created |-> Some(now),
   updated |-> Some(now),
   tags |-> Coalesce(Arg(args, "tags"), Some(<<>>)),
   repository |-> Arg(args, "repository"),
   documentation |-> None]

\* createProject: the project object handed to saveProject
NewProject(id, args, now) ==
  [id |-> Some(id),
   name |-> Arg(args, "name"),
   description |-> Arg(args, "description"),
   prd |-> Arg(args, "prd"),
   tasks |-> Some(<<>>),
   status |-> Some("planning"),
   created |-> Some(now),
   updated |-> Some(now),
   tags |-> Coalesce(Arg(args, "tags"), Some(<<>>)),
   repository |-> Arg(args, "repository"),
   documentation |-> None]

\* updateProject: { ...project, name: args.name ?? project.name, ..., updated: now }
UpdatedProject(project, args, now) ==
  [project EXCEPT
     !.name = Coalesce(Arg(args, "name"), project.name),
     !.description = Coalesce(Arg(args, "description"), project.description),
     !.status = Coalesce(Arg(args, "status"), project.status),
     !.tags = Coalesce(Arg(args, "tags"), project.tags),
     !.repository = Coalesce(Arg(args, "repository"), project.repository),
     !.updated = Some(now)]

\* createTask: the task object handed to saveTask
NewTask(id, args, now) ==
  [id |-> Some(id),
   projectId |-> Arg(args, "projectId"),
   title |-> Arg(args, "title"),
   description |-> Arg(args, "description"),
   status |-> Some("todo"),
   priority |-> Arg(args, "priority"),
   subtasks |-> Some(<<>>),
   dependencies |-> Coalesce(Arg(args, "dependencies"), Some(<<>>)),
   estimatedHours |-> Arg(args, "estimatedHours"),
   actualHours |-> Some(0),
   assignee |-> Arg(args, "assignee"),
   tags |-> Coalesce(Arg(args, "tags"), Some(<<>>)),
   created |-> Some(now),
   updated |-> Some(now),
   dueDate |-> Arg(args, "dueDate"),
   notes |-> Some("")]

\* updateTask letting the request overwrite created
UpdatedTaskTakesCreated(task, args, now) ==
  [task EXCEPT
     !.status = Coalesce(Arg(args, "status"), task.status),
     !.priority = Coalesce(Arg(args, "priority"), task.priority),
     !.actualHours = Coalesce(Arg(args, "actualHours"), task.actualHours),
     !.created = Coalesce(Arg(args, "created"), task.created),
     !.updated = Some(now)]

\* updateTask taking the links of the task from the request as well
UpdatedTaskTakesLinks(task, args, now) ==
  [task EXCEPT
     !.title = Coalesce(Arg(args, "title"), task.title),
     !.description = Coalesce(Arg(args, "description"), task.description),
     !.status = Coalesce(Arg(args, "status"), task.status),
     !.priority = Coalesce(Arg(args, "priority"), task.priority),
     !.estimatedHours = Coalesce(Arg(args, "estimatedHours"), task.estimatedHours),
     !.actualHours = Coalesce(Arg(args, "actualHours"), task.actualHours),
     !.assignee = Coalesce(Arg(args, "assignee"), task.assignee),
     !.notes = Coalesce(Arg(args, "notes"), task.notes),
     !.dueDate = Coalesce(Arg(args, "dueDate"), task.dueDate),
     !.subtasks = Coalesce(Arg(args, "subtasks"), task.subtasks),
     !.tags = Coalesce(Arg(args, "tags"), task.tags),
     !.updated = Some(now)]

\* updateTask stamping created instead of updated
UpdatedTaskStampsCreated(task, args, now) ==
  [task EXCEPT
     !.title = Coalesce(Arg(args, "title"), task.title),
     !.description = Coalesce(Arg(args, "description"), task.description),
     !.status = Coalesce(Arg(args, "status"), task.status),
     !.priority = Coalesce(Arg(args, "priority"), task.priority),
     !.estimatedHours = Coalesce(Arg(args, "estimatedHours"), task.estimatedHours),
     !.actualHours = Coalesce(Arg(args, "actualHours"), task.actualHours),
     !.assignee = Coalesce(Arg(args, "assignee"), task.assignee),
     !.notes = Coalesce(Arg(args, "notes"), task.notes),
     !.dueDate = Coalesce(Arg(args, "dueDate"), task.dueDate),
     !.created = Some(now)]

\* updateTask: { ...task, title: args.title ?? task.title, ..., updated: now }
UpdatedTask(task, args, now) ==
  [task EXCEPT
     !.title = Coalesce(Arg(args, "title"), task.title),
     !.description = Coalesce(Arg(args, "description"), task.description),
     !.status = Coalesce(Arg(args, "status"), task.status),
     !.priority = Coalesce(Arg(args, "priority"), task.priority),
     !.estimatedHours = Coalesce(Arg(args, "estimatedHours"), task.estimatedHours),
     !.actualHours = Coalesce(Arg(args, "actualHours"), task.actualHours),
     !.assignee = Coalesce(Arg(args, "assignee"), task.assignee),
     !.notes = Coalesce(Arg(args, "notes"), task.notes),
     !.dueDate = Coalesce(Arg(args, "dueDate"), task.dueDate),
     !.updated = Some(now)]

\* decomposeTask building a subtask that neither depends on nor inherits from the parent
SubtaskUnlinked(parentTask, subtaskData, id, now) ==
  [id |-> Some(id),
   projectId |-> parentTask.projectId,
   title |-> Arg(subtaskData, "title"),
   description |-> Arg(subtaskData, "description"),
   status |-> Some("todo"),
   priority |-> Arg(subtaskData, "priority"),
   subtasks |-> Some(<<>>),
   dependencies |-> Some(<<>>),
   estimatedHours |-> Arg(subtaskData, "estimatedHours"),
   actualHours |-> Some(0),
   assignee |-> None,
   tags |-> parentTask.tags,
   created |-> Some(now),
   updated |-> Some(now),
   dueDate |-> None,
   notes |-> Some("Subtask of: " \o Val(parentTask.title))]

\* decomposeTask: the subtask object built in the loop body
Subtask(parentTask, subtaskData, id, now) ==
  [id |-> Some(id),
   projectId |-> parentTask.projectId,
   title |-> Arg(subtaskData, "title"),
   description |-> Arg(subtaskData, "description"),
   status |-> Some("todo"),
   priority |-> Arg(subtaskData, "priority"),
   subtasks |-> Some(<<>>),
   dependencies |-> Some(<<Val(parentTask.id)>>),
   estimatedHours |-> Arg(subtaskData, "estimatedHours"),
   actualHours |-> Some(0),
   assignee |-> parentTask.assignee,
   tags |-> parentTask.tags,
   created |-> Some(now),
   updated |-> Some(now),
   dueDate |-> None,
   notes |-> Some("Subtask of: " \o Val(parentTask.title))]

\* decomposeTask writing only the new ids: subtasks: subtaskIds
UpdatedParentReplaces(parentTask, subtaskIds, now) ==
  [parentTask EXCEPT !.subtasks = Some(subtaskIds), !.updated = Some(now)]

\* decomposeTask: { ...parentTask, subtasks: [...(parentTask.subtasks || []), ...subtaskIds], updated }
UpdatedParent(parentTask, subtaskIds, now) ==
  [parentTask EXCEPT
     !.subtasks = Some(Val(Coalesce(parentTask.subtasks, Some(<<>>))) \o subtaskIds),
     !.updated = Some(now)]

\* decomposeTask: the for loop; a saveTask that throws leaves the loop with the
\* subtasks saved so far on disk
RECURSIVE DecomposeLoop(_, _, _, _, _)
DecomposeLoop(files, parentTask, specs, id, now) ==
  IF specs = <<>> THEN [files |-> files, result |-> Value(<<>>), written |-> 0]
  ELSE LET saved == StorageSaveTask(files, Subtask(parentTask, Head(specs), id, now))
           rest == DecomposeLoop(saved.files, parentTask, Tail(specs), id + 1, now)
       IN  IF saved.result.outcome = "error"
           THEN [files |-> files, result |-> saved.result, written |-> 0]
           ELSE IF rest.result.outcome = "error"
           THEN [files |-> rest.files, result |-> rest.result, written |-> rest.written + 1]
           ELSE [files |-> rest.files,
                 result |-> Value(<<saved.result.value>> \o rest.result.value),
                 written |-> rest.written + 1]

\* the ids of a sequence of entities
RECURSIVE IdsOf(_)
IdsOf(entities) ==
  IF entities = <<>> THEN <<>> ELSE <<Val(Head(entities).id)>> \o IdsOf(Tail(entities))

\* decomposeTask answering a missing parent with an empty list
DecomposeTaskOfNothing(files, taskId, specs, id, now) ==
  LET parent == StorageGetTask(files, taskId)
      loop == DecomposeLoop(files, parent.value, specs, id, now)
      saved == StorageSaveTask(loop.files, UpdatedParent(parent.value, IdsOf(loop.result.value), now))
  IN  IF parent.outcome = "error" THEN [files |-> files, result |-> parent, written |-> 0]
      ELSE IF parent.outcome = "null"
      THEN [files |-> files, result |-> Value(<<>>), written |-> 0]
      ELSE IF loop.result.outcome = "error" THEN loop
      ELSE [files |-> saved.files, result |-> loop.result, written |-> loop.written]

\* decomposeTask undoing the subtasks it saved when a later save throws
DecomposeTaskRollsBack(files, taskId, specs, id, now) ==
  LET parent == StorageGetTask(files, taskId)
      loop == DecomposeLoop(files, parent.value, specs, id, now)
      saved == StorageSaveTask(loop.files, UpdatedParent(parent.value, IdsOf(loop.result.value), now))
  IN  IF parent.outcome = "error" THEN [files |-> files, result |-> parent, written |-> 0]
      ELSE IF parent.outcome = "null"
      THEN [files |-> files, result |-> Throw("Parent task not found"), written |-> 0]
      ELSE IF loop.result.outcome = "error"
      THEN [files |-> files, result |-> loop.result, written |-> 0]
      ELSE [files |-> saved.files, result |-> loop.result, written |-> loop.written]

\* decomposeTask as a whole: the new files, the outcome and the number of subtask
\* files written
DecomposeTask(files, taskId, specs, id, now) ==
  LET parent == StorageGetTask(files, taskId)
      loop == DecomposeLoop(files, parent.value, specs, id, now)
      saved == StorageSaveTask(loop.files, UpdatedParent(parent.value, IdsOf(loop.result.value), now))
  IN  IF parent.outcome = "error" THEN [files |-> files, result |-> parent, written |-> 0]
      ELSE IF parent.outcome = "null"
      THEN [files |-> files, result |-> Throw("Parent task not found"), written |-> 0]
      ELSE IF loop.result.outcome = "error" THEN loop
      ELSE [files |-> saved.files, result |-> loop.result, written |-> loop.written]

\* array?.includes(x) on an optional array
Includes(array, x) == array # None /\ x \in SeqRange(Val(array))

\* listProjects: the predicate of projects.filter
ProjectMatches(project, filter) ==
  /\ ("status" \in DOMAIN filter => project.status = Some(filter.status))
  /\ ("hasRepository" \in DOMAIN filter => (project.repository # None) = filter.hasRepository)
  /\ ("tags" \in DOMAIN filter => \A tag \in SeqRange(filter.tags) : Includes(project.tags, tag))

\* listTasks keeping a task that carries some tag of the filter: filter.tags.some(...)
TaskMatchesAnyTag(task, filter) ==
  /\ ("projectId" \in DOMAIN filter => task.projectId = Some(filter.projectId))
  /\ ("status" \in DOMAIN filter => task.status = Some(filter.status))
  /\ ("priority" \in DOMAIN filter => task.priority = Some(filter.priority))
  /\ ("assignee" \in DOMAIN filter => task.assignee = Some(filter.assignee))
  /\ ("tags" \in DOMAIN filter => \E tag \in SeqRange(filter.tags) : Includes(task.tags, tag))

\* listTasks: the predicate of tasks.filter
TaskMatches(task, filter) ==
  /\ ("projectId" \in DOMAIN filter => task.projectId = Some(filter.projectId))
  /\ ("status" \in DOMAIN filter => task.status = Some(filter.status))
  /\ ("priority" \in DOMAIN filter => task.priority = Some(filter.priority))
  /\ ("assignee" \in DOMAIN filter => task.assignee = Some(filter.assignee))
  /\ ("tags" \in DOMAIN filter => \A tag \in SeqRange(filter.tags) : Includes(task.tags, tag))

\* Array.prototype.filter
RECURSIVE SelectTasks(_, _)
SelectTasks(tasks, filter) ==
  IF tasks = <<>> THEN <<>>
  ELSE (IF TaskMatches(Head(tasks), filter) THEN <<Head(tasks)>> ELSE <<>>)
       \o SelectTasks(Tail(tasks), filter)

RECURSIVE SelectProjects(_, _)
SelectProjects(projects, filter) ==
  IF projects = <<>> THEN <<>>
  ELSE (IF ProjectMatches(Head(projects), filter) THEN <<Head(projects)>> ELSE <<>>)
       \o SelectProjects(Tail(projects), filter)

\* tasks.filter(task => task.status === TaskStatus.DONE).length
RECURSIVE CountDone(_)
CountDone(tasks) ==
  IF tasks = <<>> THEN 0
  ELSE (IF Head(tasks).status = Some("done") THEN 1 ELSE 0) + CountDone(Tail(tasks))

TaskSummary(task) ==
  [id |-> task.id, projectId |-> task.projectId, title |-> task.title,
   status |-> task.status, priority |-> task.priority,
   estimatedHours |-> task.estimatedHours, actualHours |-> task.actualHours,
   created |-> task.created, updated |-> task.updated]

\* a summary counting the ids of the project's own tasks list
ProjectSummaryOfTasksList(project, tasks) ==
  [id |-> project.id, name |-> project.name, description |-> project.description,
   status |-> project.status, taskCount |-> Len(Val(project.tasks)),
   completedTasks |-> CountDone(tasks),
   created |-> project.created, updated |-> project.updated]

\* the ProjectSummary literal of listProjects and getProjectStatus
ProjectSummary(project, tasks) ==
  [id |-> project.id, name |-> project.name, description |-> project.description,
   status |-> project.status, taskCount |-> Len(tasks), completedTasks |-> CountDone(tasks),
   created |-> project.created, updated |-> project.updated]

\* listTasks of the handlers: storage.listTasks(), filter, map to summaries
ListTasks(files, filter) ==
  LET tasks == StorageListTasks(files, None)
      filtered == SelectTasks(tasks.value, filter)
  IN  IF tasks.outcome = "error" THEN tasks
      ELSE Value([i \in 1 .. Len(filtered) |-> TaskSummary(filtered[i])])

\* listProjects: the loop that builds one summary per filtered project
RECURSIVE Summaries(_, _)
Summaries(projects, tfiles) ==
  IF projects = <<>> THEN Value(<<>>)
  ELSE LET tasks == StorageListTasks(tfiles, Head(projects).id)
           rest == Summaries(Tail(projects), tfiles)
       IN  IF tasks.outcome = "error" THEN tasks
           ELSE IF rest.outcome = "error" THEN rest
           ELSE Value(<<ProjectSummary(Head(projects), tasks.value)>> \o rest.value)

\* listProjects of the handlers
ListProjects(pfiles, tfiles, filter) ==
  LET projects == StorageListProjects(pfiles)
  IN  IF projects.outcome = "error" THEN projects
      ELSE Summaries(SelectProjects(projects.value, filter), tfiles)

\* a non-negative rational in lowest terms
RECURSIVE Gcd(_, _)
Gcd(a, b) == IF b = 0 THEN a ELSE Gcd(b, a % b)
Ratio(n, d) == [num |-> n \div Gcd(n, d), den |-> d \div Gcd(n, d)]

\* the completed fraction without the factor 100
CompletionFraction(tasks) ==
  IF Len(tasks) > 0 THEN Ratio(CountDone(tasks), Len(tasks)) ELSE Ratio(0, 1)

\* tasks.length > 0 ? (completedTasks.length / tasks.length) * 100 : 0
CompletionPercentage(tasks) ==
  IF Len(tasks) > 0 THEN Ratio(CountDone(tasks) * 100, Len(tasks)) ELSE Ratio(0, 1)

\* both totals reduced over estimatedHours
RECURSIVE SumEstimated(_, _)
SumEstimated(tasks, field) ==
  IF tasks = <<>> THEN 0
  ELSE (IF Head(tasks).estimatedHours = None THEN 0 ELSE Val(Head(tasks).estimatedHours))
       + SumEstimated(Tail(tasks), field)

\* tasks.reduce((sum, task) => sum + (task.estimatedHours || 0), 0)
RECURSIVE SumHours(_, _)
SumHours(tasks, field) ==
  IF tasks = <<>> THEN 0
  ELSE (IF Head(tasks)[field] = None THEN 0 ELSE Val(Head(tasks)[field]))
       + SumHours(Tail(tasks), field)

\* .sort((a, b) => a.dueDate - b.dueDate), stable, ascending
RECURSIVE InsertByDueDate(_, _)
InsertByDueDate(x, sorted) ==
  IF sorted = <<>> THEN <<x>>
  ELSE IF Val(Head(sorted).dueDate) <= Val(x.dueDate)
       THEN <<Head(sorted)>> \o InsertByDueDate(x, Tail(sorted))
       ELSE <<x>> \o sorted

RECURSIVE SortByDueDate(_)
SortByDueDate(s) ==
  IF s = <<>> THEN <<>>
  ELSE InsertByDueDate(s[Len(s)], SortByDueDate(SubSeq(s, 1, Len(s) - 1)))

\* .filter(task => task.dueDate && task.status !== TaskStatus.DONE)
RECURSIVE WithOpenDeadline(_)
WithOpenDeadline(tasks) ==
  IF tasks = <<>> THEN <<>>
  ELSE (IF Head(tasks).dueDate # None /\ Head(tasks).status # Some("done")
        THEN <<Head(tasks)>> ELSE <<>>) \o WithOpenDeadline(Tail(tasks))

UpcomingLimit == 5

\* upcomingDeadlines without the slice
UpcomingDeadlinesUncut(tasks) ==
  LET sorted == SortByDueDate(WithOpenDeadline(tasks))
  IN  [i \in 1 .. Len(sorted) |->
         [taskId |-> sorted[i].id, title |-> sorted[i].title, dueDate |-> sorted[i].dueDate]]

UpcomingDeadlines(tasks) ==
  LET sorted == SortByDueDate(WithOpenDeadline(tasks))
      first == SubSeq(sorted, 1, IF Len(sorted) < UpcomingLimit THEN Len(sorted) ELSE UpcomingLimit)
  IN  [i \in 1 .. Len(first) |->
         [taskId |-> first[i].id, title |-> first[i].title, dueDate |-> first[i].dueDate]]

\* getProjectStatus throwing for a missing project
GetProjectStatusThrows(pfiles, tfiles, id) ==
  LET project == StorageGetProject(pfiles, id)
      tasks == StorageListTasks(tfiles, Some(id))
  IN  IF project.outcome = "null" THEN Throw("Project not found")
      ELSE IF project.outcome = "error" THEN project
      ELSE IF tasks.outcome = "error" THEN tasks
      ELSE Value([project |-> ProjectSummary(project.value, tasks.value),
                  tasks |-> [i \in 1 .. Len(tasks.value) |-> TaskSummary(tasks.value[i])],
                  completionPercentage |-> CompletionPercentage(tasks.value),
                  totalEstimatedHours |-> SumHours(tasks.value, "estimatedHours"),
                  totalActualHours |-> SumHours(tasks.value, "actualHours"),
                  upcomingDeadlines |-> UpcomingDeadlines(tasks.value)])

\* getProjectStatus: null for a missing project, else the report
GetProjectStatus(pfiles, tfiles, id) ==
  LET project == StorageGetProject(pfiles, id)
      tasks == StorageListTasks(tfiles, Some(id))
  IN  IF project.outcome # "value" THEN project
      ELSE IF tasks.outcome = "error" THEN tasks
      ELSE Value([project |-> ProjectSummary(project.value, tasks.value),
                  tasks |-> [i \in 1 .. Len(tasks.value) |-> TaskSummary(tasks.value[i])],
                  completionPercentage |-> CompletionPercentage(tasks.value),
                  totalEstimatedHours |-> SumHours(tasks.value, "estimatedHours"),
                  totalActualHours |-> SumHours(tasks.value, "actualHours"),
                  upcomingDeadlines |-> UpcomingDeadlines(tasks.value)])

(* ------------------------------ requests ------------------------------- *)
\* create_project arguments: a minimal one, one with every optional field and
\* with keys the handler does not read, one whose prd lacks a required part
CreateProjectArgs ==
  { [name |-> "Alpha", description |-> "d", prd |-> "prd"],
    [name |-> "Beta", description |-> "d", prd |-> "prd", tags |-> <<"b", "a">>,
     repository |-> "git", id |-> BogusId, created |-> 0, updated |-> 0,
     status |-> "completed"],
    [name |-> "Gamma", description |-> "d", prd |-> "noTimeline"] }

\* update_project arguments besides id
UpdateProjectArgs ==
  { NoData,
    [status |-> "in_progress", created |-> 0, tasks |-> <<BogusId>>, prd |-> "other",
     documentation |-> "doc"],
    [status |-> "archived"],
    [status |-> "unknown"] }

\* create_task arguments besides projectId: one with every optional field and with
\* keys the handler does not read, one whose priority is outside the enum, one
\* without the required title
CreateTaskArgs ==
  { [title |-> "T", description |-> "d", priority |-> "low", estimatedHours |-> 8,
     dueDate |-> 15, assignee |-> "sam", tags |-> <<"a">>, id |-> BogusId, created |-> 0],
    [title |-> "T", description |-> "d", priority |-> "urgent"],
    [description |-> "d", priority |-> "low"] }

\* update_task arguments besides id
UpdateTaskArgs ==
  { NoData,
    [status |-> "done", actualHours |-> 5, assignee |-> "kim", created |-> 0,
     subtasks |-> <<>>, projectId |-> BogusId, dependencies |-> <<BogusId>>,
     tags |-> <<"z">>],
    [priority |-> "urgent"],
    [status |-> "unknown"] }

\* one subtask specification of decompose_task, with a priority of the enum or not
ValidSubtask == [title |-> "sub", description |-> "d", priority |-> "medium"]
InvalidSubtask == [title |-> "sub", description |-> "d", priority |-> "urgent"]

\* the specification at position i of a list carries a title of its own
SubtaskTitles == <<"sub1", "sub2", "sub3", "sub4">>
Titled(spec, i) == [spec EXCEPT !.title = SubtaskTitles[((i - 1) % Len(SubtaskTitles)) + 1]]

\* the lists of subtask specifications: all valid, or valid up to a last invalid one
SubtaskLists ==
  {[i \in 1 .. n |-> Titled(ValidSubtask, i)] : n \in 0 .. MaxSubtasks}
  \cup {[i \in 1 .. n |-> Titled(IF i < n THEN ValidSubtask ELSE InvalidSubtask, i)] :
           n \in 1 .. MaxSubtasks}

ProjectFilters == { NoData, [status |-> "planning"], [tags |-> <<"a", "b">>] }

\* the ids that name a stored project, and one that names none
ProjectIds == {i \in Ids : projectFiles[i].kind # "absent"} \cup {BogusId}
\* list_tasks filters: the tasks of one project, or the tasks carrying all of some tags
TaskFilters ==
  {[projectId |-> p] : p \in ProjectIds} \cup { [tags |-> <<"a", "b">>], [tags |-> <<"a">>] }

\* the ids that name a stored task, and one that names none
TaskIds == {i \in Ids : taskFiles[i].kind # "absent"} \cup {BogusId}

Call(op, arg, result) == [op |-> op, arg |-> arg, result |-> result]
NoCall == Call("none", NoData, Null)

\* no decomposeTask is between two saves
NoJob == [args |-> NoData, parentTask |-> NoData, rest |-> <<>>, subtasks |-> <<>>]

\* no fs.writeFile is in progress
Idle == [kind |-> "idle", id |-> BogusId, old |-> Absent, content |-> Absent, call |-> NoCall]

(* ------------------------------- actions ------------------------------- *)
Init ==
  /\ projectFiles = [i \in Ids |-> Absent]
  /\ taskFiles = [i \in Ids |-> Absent]
  /\ clock = 1
  /\ nextId = 1
  /\ ret = NoCall
  /\ decomposed = [i \in Ids |-> <<>>]
  /\ steps = 0
  /\ pending = Idle
  /\ job = NoJob

\* a step that changes the store or the clock is counted, any other is not
Counted ==
  IF <<projectFiles, taskFiles, clock>>' # <<projectFiles, taskFiles, clock>>
  THEN steps < MaxSteps /\ steps' = steps + 1
  ELSE steps' = steps

\* no call is being served: one request is served at a time
Waiting == ret = NoCall

\* time passes between two calls
Tick ==
  /\ Waiting
  /\ clock < MaxClock
  /\ clock' = clock + 1
  /\ ret' = NoCall
  /\ UNCHANGED <<projectFiles, taskFiles, nextId, decomposed, pending, job>>
  /\ Counted

\* what an editor or a crashed writer can leave in a record file: bytes that do
\* not parse, or JSON whose status is outside the enum
Damaged(f) ==
  {Garbage} \cup (IF f.kind = "json" THEN {Json([f.data EXCEPT !.status = "unknown"])} ELSE {})

\* a record file of the storage root is changed from outside the server
DamageTaskFile ==
  /\ Waiting
  /\ \E id \in Ids : \E content \in Damaged(taskFiles[id]) :
       /\ taskFiles[id].kind = "json"
       /\ ParseTaskFile(taskFiles[id]).outcome = "value"
       /\ taskFiles' = [taskFiles EXCEPT ![id] = content]
       /\ ret' = NoCall
       /\ UNCHANGED <<projectFiles, clock, nextId, decomposed, pending, job>>
       /\ Counted

DamageProjectFile ==
  /\ Waiting
  /\ \E id \in Ids : \E content \in Damaged(projectFiles[id]) :
       /\ projectFiles[id].kind = "json"
       /\ ParseProjectFile(projectFiles[id]).outcome = "value"
       /\ projectFiles' = [projectFiles EXCEPT ![id] = content]
       /\ ret' = NoCall
       /\ UNCHANGED <<taskFiles, clock, nextId, decomposed, pending, job>>
       /\ Counted

CreateProject ==
  /\ Waiting
  /\ \E args \in CreateProjectArgs :
       LET saved == StorageSaveProject(projectFiles, NewProject(nextId, args, clock))
       IN  /\ nextId <= MaxIds
           /\ nextId' = IF saved.result.outcome = "value" THEN nextId + 1 ELSE nextId
           /\ projectFiles' = saved.files
           /\ ret' = Call("createProject", args, saved.result)
           /\ UNCHANGED <<taskFiles, clock, decomposed, pending, job>>
           /\ Counted

GetProject ==
  /\ Waiting
  /\ \E id \in ProjectIds :
       /\ ret' = Call("getProject", [id |-> id], StorageGetProject(projectFiles, id))
       /\ UNCHANGED <<projectFiles, taskFiles, clock, nextId, decomposed, pending, job>>
       /\ Counted

UpdateProject ==
  /\ Waiting
  /\ \E id \in ProjectIds : \E args \in UpdateProjectArgs :
       LET project == StorageGetProject(projectFiles, id)
           saved == StorageSaveProject(projectFiles, UpdatedProject(project.value, args, clock))
       IN  /\ projectFiles' = IF project.outcome = "value" THEN saved.files ELSE projectFiles
           /\ ret' = Call("updateProject", [id |-> id, args |-> args],
                          IF project.outcome = "value" THEN saved.result ELSE project)
           /\ UNCHANGED <<taskFiles, clock, nextId, decomposed, pending, job>>
           /\ Counted

ListProjectsCall ==
  /\ Waiting
  /\ \E filter \in ProjectFilters :
       /\ ret' = Call("listProjects", filter, ListProjects(projectFiles, taskFiles, filter))
       /\ UNCHANGED <<projectFiles, taskFiles, clock, nextId, decomposed, pending, job>>
       /\ Counted

CreateTask ==
  /\ Waiting
  /\ \E projectId \in ProjectIds : \E args \in CreateTaskArgs :
       LET full == [k \in DOMAIN args \cup {"projectId"} |->
                      IF k = "projectId" THEN projectId ELSE args[k]]
           saved == StorageSaveTask(taskFiles, NewTask(nextId, full, clock))
       IN  /\ nextId <= MaxIds
           /\ nextId' = IF saved.result.outcome = "value" THEN nextId + 1 ELSE nextId
           /\ taskFiles' = saved.files
           /\ ret' = Call("createTask", full, saved.result)
           /\ UNCHANGED <<projectFiles, clock, decomposed, pending, job>>
           /\ Counted

GetTask ==
  /\ Waiting
  /\ \E id \in TaskIds :
       /\ ret' = Call("getTask", [id |-> id], StorageGetTask(taskFiles, id))
       /\ UNCHANGED <<projectFiles, taskFiles, clock, nextId, decomposed, pending, job>>
       /\ Counted

UpdateTask ==
  /\ Waiting
  /\ \E id \in TaskIds : \E args \in UpdateTaskArgs :
       LET task == StorageGetTask(taskFiles, id)
           saved == StorageSaveTask(taskFiles, UpdatedTask(task.value, args, clock))
       IN  /\ taskFiles' = IF task.outcome = "value" THEN saved.files ELSE taskFiles
           /\ ret' = Call("updateTask", [id |-> id, args |-> args],
                          IF task.outcome = "value" THEN saved.result ELSE task)
           /\ UNCHANGED <<projectFiles, clock, nextId, decomposed, pending, job>>
           /\ Counted

ListTasksCall ==
  /\ Waiting
  /\ \E filter \in TaskFilters :
       /\ ret' = Call("listTasks", filter, ListTasks(taskFiles, filter))
       /\ UNCHANGED <<projectFiles, taskFiles, clock, nextId, decomposed, pending, job>>
       /\ Counted

\* an identifier is counted when its file is written; one drawn for a save that
\* fails is never seen again
DecomposeTaskCall ==
  /\ Waiting
  /\ \E taskId \in TaskIds : \E specs \in SubtaskLists :
       LET done == DecomposeTask(taskFiles, taskId, specs, nextId, clock)
       IN  /\ nextId + Len(specs) <= MaxIds + 1
           /\ nextId' = nextId + done.written
           /\ taskFiles' = done.files
           /\ decomposed' = IF done.result.outcome = "value"
                            THEN [decomposed EXCEPT ![taskId] = @ \o IdsOf(done.result.value)]
                            ELSE decomposed
           /\ ret' = Call("decomposeTask", [taskId |-> taskId, subtasks |-> specs], done.result)
           /\ UNCHANGED <<projectFiles, clock, pending, job>>
           /\ Counted

GetProjectStatusCall ==
  /\ Waiting
  /\ \E id \in ProjectIds :
       /\ ret' = Call("getProjectStatus", [id |-> id], GetProjectStatus(projectFiles, taskFiles, id))
       /\ UNCHANGED <<projectFiles, taskFiles, clock, nextId, decomposed, pending, job>>
       /\ Counted

DeleteProject ==
  /\ Waiting
  /\ \E id \in ProjectIds :
       LET done == StorageDeleteProject(projectFiles, taskFiles, id)
       IN  /\ projectFiles' = done.projectFiles
           /\ taskFiles' = done.taskFiles
           /\ ret' = Call("deleteProject", [id |-> id], done.result)
           /\ UNCHANGED <<clock, nextId, decomposed, pending, job>>
           /\ Counted

DeleteTask ==
  /\ Waiting
  /\ \E id \in TaskIds :
       LET done == StorageDeleteTask(taskFiles, id)
       IN  /\ taskFiles' = done.taskFiles
           /\ ret' = Call("deleteTask", [id |-> id], done.result)
           /\ UNCHANGED <<projectFiles, clock, nextId, decomposed, pending, job>>
           /\ Counted

\* the names handleToolCall has no case for; the storage's deletes are no tools
UnknownTools == {"delete_project", "delete_task"}

\* handleToolCall: default: throw new Error(`Unknown tool: ${name}`)
UnknownToolCall ==
  /\ Waiting
  /\ \E name \in UnknownTools :
       ret' = Call("unknownTool", [name |-> name], Throw("Unknown tool: " \o name))
  /\ UNCHANGED <<projectFiles, taskFiles, clock, nextId, decomposed, steps, pending, job>>

\* the CallTool handler answering a thrown error like a result
ToolResponseUnmarked(result) ==
  [isError |-> FALSE, text |-> "", payload |-> result]

\* the CallTool handler: the result as JSON text, or on a thrown error the text
\* "Error: <message>" with isError: true
ToolResponse(result) ==
  IF result.outcome = "error"
  THEN [isError |-> TRUE, text |-> "Error: " \o result.error, payload |-> Null]
  ELSE [isError |-> FALSE, text |-> "", payload |-> result]

\* the response of the call has been sent; the server waits for the next request
Respond ==
  /\ ret # NoCall
  /\ ret' = NoCall
  /\ UNCHANGED <<projectFiles, taskFiles, clock, nextId, decomposed, steps, pending, job>>

Next ==
  \/ Tick
  \/ DamageTaskFile
  \/ DamageProjectFile
  \/ CreateProject
  \/ GetProject
  \/ UpdateProject
  \/ ListProjectsCall
  \/ CreateTask
  \/ GetTask
  \/ UpdateTask
  \/ ListTasksCall
  \/ DecomposeTaskCall
  \/ GetProjectStatusCall
  \/ DeleteProject
  \/ DeleteTask
  \/ UnknownToolCall
  \/ Respond

Spec == Init /\ [][Next]_vars

(* ------------------- writes that take time (SpecConc) ------------------ *)
\* fs.writeFile opens its file with flag 'w': the file is empty until the data
\* is written, and a read of it in between gets bytes JSON.parse rejects
Truncated(files, id) == [files EXCEPT ![id] = Garbage]

\* the fs.writeFile a handler is suspended in: the file, what it held before, what
\* it holds afterwards and the response of the call
Writing(kind, id, old, content, call) ==
  [kind |-> kind, id |-> id, old |-> old, content |-> content, call |-> call]

\* createTask up to the start of its fs.writeFile
BeginCreateTask ==
  /\ Waiting
  /\ pending = Idle
  /\ \E projectId \in ProjectIds : \E args \in CreateTaskArgs :
       LET full == [k \in DOMAIN args \cup {"projectId"} |->
                      IF k = "projectId" THEN projectId ELSE args[k]]
           saved == StorageSaveTask(taskFiles, NewTask(nextId, full, clock))
           ok == saved.result.outcome = "value"
       IN  /\ nextId <= MaxIds
           /\ nextId' = IF ok THEN nextId + 1 ELSE nextId
           /\ taskFiles' = IF ok THEN Truncated(taskFiles, nextId) ELSE taskFiles
           /\ pending' = IF ok
                         THEN Writing("task", nextId, taskFiles[nextId], saved.files[nextId],
                                      Call("createTask", full, saved.result))
                         ELSE Idle
           /\ ret' = IF ok THEN ret ELSE Call("createTask", full, saved.result)
           /\ UNCHANGED <<projectFiles, clock, decomposed, job>>
           /\ Counted

\* updateTask up to the start of its fs.writeFile
BeginUpdateTask ==
  /\ Waiting
  /\ pending = Idle
  /\ \E id \in TaskIds : \E args \in UpdateTaskArgs :
       LET task == StorageGetTask(taskFiles, id)
           saved == StorageSaveTask(taskFiles, UpdatedTask(task.value, args, clock))
           call == Call("updateTask", [id |-> id, args |-> args],
                        IF task.outcome = "value" THEN saved.result ELSE task)
           ok == call.result.outcome = "value"
       IN  /\ taskFiles' = IF ok THEN Truncated(taskFiles, id) ELSE taskFiles
           /\ pending' = IF ok THEN Writing("task", id, taskFiles[id], saved.files[id], call)
                         ELSE Idle
           /\ ret' = IF ok THEN ret ELSE call
           /\ UNCHANGED <<projectFiles, clock, nextId, decomposed, job>>
           /\ Counted

\* createProject up to the start of its fs.writeFile
BeginCreateProject ==
  /\ Waiting
  /\ pending = Idle
  /\ \E args \in CreateProjectArgs :
       LET saved == StorageSaveProject(projectFiles, NewProject(nextId, args, clock))
           ok == saved.result.outcome = "value"
       IN  /\ nextId <= MaxIds
           /\ nextId' = IF ok THEN nextId + 1 ELSE nextId
           /\ projectFiles' = IF ok THEN Truncated(projectFiles, nextId) ELSE projectFiles
           /\ pending' = IF ok
                         THEN Writing("project", nextId, projectFiles[nextId],
                                      saved.files[nextId], Call("createProject", args, saved.result))
                         ELSE Idle
           /\ ret' = IF ok THEN ret ELSE Call("createProject", args, saved.result)
           /\ UNCHANGED <<taskFiles, clock, decomposed, job>>
           /\ Counted

\* updateProject up to the start of its fs.writeFile
BeginUpdateProject ==
  /\ Waiting
  /\ pending = Idle
  /\ \E id \in ProjectIds : \E args \in UpdateProjectArgs :
       LET project == StorageGetProject(projectFiles, id)
           saved == StorageSaveProject(projectFiles, UpdatedProject(project.value, args, clock))
           call == Call("updateProject", [id |-> id, args |-> args],
                        IF project.outcome = "value" THEN saved.result ELSE project)
           ok == call.result.outcome = "value"
       IN  /\ projectFiles' = IF ok THEN Truncated(projectFiles, id) ELSE projectFiles
           /\ pending' = IF ok
                         THEN Writing("project", id, projectFiles[id], saved.files[id], call)
                         ELSE Idle
           /\ ret' = IF ok THEN ret ELSE call
           /\ UNCHANGED <<taskFiles, clock, nextId, decomposed, job>>
           /\ Counted

\* decomposeTask up to its loop: the parent is read once
BeginDecomposeTask ==
  /\ Waiting
  /\ job = NoJob
  /\ \E taskId \in TaskIds : \E specs \in SubtaskLists :
       LET parent == StorageGetTask(taskFiles, taskId)
           args == [taskId |-> taskId, subtasks |-> specs]
       IN  /\ nextId + Len(specs) <= MaxIds + 1
           /\ job' = IF parent.outcome = "value"
                     THEN [args |-> args, parentTask |-> parent.value, rest |-> specs,
                           subtasks |-> <<>>]
                     ELSE NoJob
           /\ ret' = IF parent.outcome = "value" THEN ret
                     ELSE Call("decomposeTask", args,
                               IF parent.outcome = "null" THEN Throw("Parent task not found")
                               ELSE parent)
           /\ UNCHANGED <<projectFiles, taskFiles, clock, nextId, decomposed, steps, pending>>

\* one turn of the loop of decomposeTask, up to the start of the fs.writeFile of
\* the subtask; the loop goes on when that write is complete
DecomposeSaveSubtask ==
  /\ Waiting
  /\ pending = Idle
  /\ job # NoJob
  /\ job.rest # <<>>
  /\ nextId <= MaxIds
  /\ LET subtask == Subtask(job.parentTask, Head(job.rest), nextId, clock)
         saved == StorageSaveTask(taskFiles, subtask)
         ok == saved.result.outcome = "value"
     IN  /\ nextId' = IF ok THEN nextId + 1 ELSE nextId
         /\ taskFiles' = IF ok THEN Truncated(taskFiles, nextId) ELSE taskFiles
         /\ pending' = IF ok
                       THEN Writing("task", nextId, taskFiles[nextId], saved.files[nextId], NoCall)
                       ELSE Idle
         /\ job' = IF ok
                   THEN [job EXCEPT !.rest = Tail(@), !.subtasks = Append(@, subtask)]
                   ELSE NoJob
         /\ ret' = IF ok THEN ret ELSE Call("decomposeTask", job.args, saved.result)
         /\ UNCHANGED <<projectFiles, clock, decomposed>>
         /\ Counted

\* decomposeTask writing the parent before its loop, with the ids it is about to use
DecomposeSaveParentFirst ==
  /\ Waiting
  /\ pending = Idle
  /\ job # NoJob
  /\ job.subtasks = <<>>
  /\ LET subtaskIds == [k \in 1 .. Len(job.rest) |-> nextId + k - 1]
         taskId == job.args.taskId
         saved == StorageSaveTask(taskFiles, UpdatedParent(job.parentTask, subtaskIds, clock))
     IN  /\ taskFiles' = Truncated(taskFiles, taskId)
         /\ pending' = Writing("task", taskId, taskFiles[taskId], saved.files[taskId],
                               Call("decomposeTask", job.args, Value(job.subtasks)))
         /\ decomposed' = [decomposed EXCEPT ![taskId] = @ \o subtaskIds]
         /\ job' = NoJob
         /\ UNCHANGED <<projectFiles, clock, nextId, ret>>
         /\ Counted

\* decomposeTask after its loop, up to the start of the fs.writeFile of the parent
DecomposeSaveParent ==
  /\ Waiting
  /\ pending = Idle
  /\ job # NoJob
  /\ job.rest = <<>>
  /\ LET subtaskIds == IdsOf(job.subtasks)
         taskId == job.args.taskId
         saved == StorageSaveTask(taskFiles, UpdatedParent(job.parentTask, subtaskIds, clock))
     IN  /\ taskFiles' = Truncated(taskFiles, taskId)
         /\ pending' = Writing("task", taskId, taskFiles[taskId], saved.files[taskId],
                               Call("decomposeTask", job.args, Value(job.subtasks)))
         /\ decomposed' = [decomposed EXCEPT ![taskId] = @ \o subtaskIds]
         /\ job' = NoJob
         /\ UNCHANGED <<projectFiles, clock, nextId, ret>>
         /\ Counted

\* the fs.writeFile completes and the suspended handler goes on or returns
FinishWrite ==
  /\ Waiting
  /\ pending # Idle
  /\ taskFiles' = IF pending.kind = "task"
                  THEN [taskFiles EXCEPT ![pending.id] = pending.content] ELSE taskFiles
  /\ projectFiles' = IF pending.kind = "project"
                     THEN [projectFiles EXCEPT ![pending.id] = pending.content] ELSE projectFiles
  /\ ret' = pending.call
  /\ pending' = Idle
  /\ UNCHANGED <<clock, nextId, decomposed, job, steps>>

\* requests are served as they arrive: reads run while a write is suspended
NextConc ==
  \/ Tick
  \/ BeginCreateProject
  \/ BeginUpdateProject
  \/ BeginCreateTask
  \/ BeginUpdateTask
  \/ FinishWrite
  \/ GetProject
  \/ ListProjectsCall
  \/ GetTask
  \/ ListTasksCall
  \/ Respond

SpecConc == Init /\ [][NextConc]_vars

\* decomposeTask save by save: between two of its saves other task calls are served
NextSteps ==
  \/ Tick
  \/ CreateTask
  \/ UpdateTask
  \/ BeginDecomposeTask
  \/ DecomposeSaveSubtask
  \/ DecomposeSaveParent
  \/ FinishWrite
  \/ GetTask
  \/ ListTasksCall
  \/ Respond

SpecSteps == Init /\ [][NextSteps]_vars

\* the same, with calls of decomposeTask that run from their read to their last
\* write while another decomposeTask is between its read and its last write
NextRace ==
  \/ NextSteps
  \/ DecomposeTaskCall

SpecRace == Init /\ [][NextRace]_vars

(* ------------------- reports over larger stores (SpecReport) ----------- *)
\* a task as createTask stores it for project 1 with a due date and an estimate
ReportTask(id) ==
  NewTask(id, [projectId |-> 1, title |-> "T", description |-> "d", priority |-> "low",
               estimatedHours |-> 8, dueDate |-> 1], 1)

\* the task files a store can hold under one id: none, the task as created, with a
\* later due date, done with hours booked (updateTask), created without due date
\* and estimate, or created for another project
ReportTaskFiles(id) ==
  << Absent,
     Json(Stringify(ReportTask(id))),
     Json(Stringify([ReportTask(id) EXCEPT !.dueDate = Some(2)])),
     Json(Stringify([ReportTask(id) EXCEPT !.status = Some("done"), !.actualHours = Some(5),
                                           !.updated = Some(2)])),
     Json(Stringify([ReportTask(id) EXCEPT !.dueDate = None, !.estimatedHours = None])),
     Json(Stringify([ReportTask(id) EXCEPT !.projectId = Some(2)])) >>

\* a store with project 1 and up to MaxTasks task files
InitReport ==
  /\ projectFiles = [i \in Ids |->
                       IF i = 1
                       THEN Json(Stringify(NewProject(1, [name |-> "Alpha", description |-> "d",
                                                          prd |-> "prd"], 1)))
                       ELSE Absent]
  /\ \E which \in [1 .. MaxTasks -> DOMAIN ReportTaskFiles(1)] :
       taskFiles = [i \in 1 .. MaxTasks |-> ReportTaskFiles(i)[which[i]]]
  /\ clock = MaxClock
  /\ nextId = MaxTasks + 1
  /\ ret = NoCall
  /\ decomposed = [i \in Ids |-> <<>>]
  /\ steps = 0
  /\ pending = Idle
  /\ job = NoJob

NextReport ==
  \/ GetProjectStatusCall
  \/ Respond

SpecReport == InitReport /\ [][NextReport]_vars

(* ------------------------------ properties ----------------------------- *)
\* the stored tasks of a project, read off the files
TasksOf(projectId) ==
  {i \in Ids : taskFiles[i].kind = "json" /\ taskFiles[i].data.projectId = projectId}

DoneTasksOf(projectId) == {i \in TasksOf(projectId) : taskFiles[i].data.status = "done"}

Returned(op) == ret.op = op /\ ret.result.outcome = "value"

\* C1: after deleteProject(P) returned true, P has no record and no stored task
\* has projectId = P, so listTasks({projectId: P}) is the empty sequence
C1_DeleteProjectCascades ==
  (Returned("deleteProject") /\ ret.result.value)
    => /\ ReadFile(projectFiles, ret.arg.id).kind = "absent"
       /\ TasksOf(ret.arg.id) = {}
       /\ ListTasks(taskFiles, [projectId |-> ret.arg.id]) = Value(<<>>)

\* a project is deleted whose tasks included a parent and the subtasks of a decomposeTask
C1_Witness ==
  /\ Returned("deleteProject") /\ ret.result.value
  /\ \E p \in Ids :
       /\ decomposed[p] # <<>>
       /\ \A i \in {p} \cup SeqRange(decomposed[p]) : taskFiles[i].kind = "absent"

\* C2: the stored subtasks of every task are the ids returned by the successful
\* decomposeTask calls on it, call after call in input order: each call appends
C2_SubtasksAppendOnly ==
  \A p \in Ids : taskFiles[p].kind = "json" => taskFiles[p].data.subtasks = decomposed[p]

\* a second decomposeTask on the same parent has returned: the parent lists more
\* ids than this call created
C2_Witness ==
  /\ Returned("decomposeTask")
  /\ Len(ret.result.value) >= 1
  /\ Len(taskFiles[ret.arg.taskId].data.subtasks) > Len(ret.result.value)

\* C3: completionPercentage of a report is 0 for a project without tasks, else
\* 100 * completedTasks / taskCount, counted over the stored tasks, and in [0, 100]
C3_CompletionPercentage ==
  Returned("getProjectStatus") =>
    LET n == Cardinality(TasksOf(ret.arg.id))
        c == Cardinality(DoneTasksOf(ret.arg.id))
        pct == ret.result.value.completionPercentage
    IN  /\ pct.den > 0
        /\ (n = 0 => pct.num = 0)
        /\ (n > 0 => pct.num * n = 100 * c * pct.den)
        /\ 0 <= pct.num
        /\ pct.num <= 100 * pct.den

\* a report of a project with some tasks done and some not
C3_Witness ==
  /\ Returned("getProjectStatus")
  /\ DoneTasksOf(ret.arg.id) # {}
  /\ DoneTasksOf(ret.arg.id) # TasksOf(ret.arg.id)

\* the fields a stored record keeps over an update that does not name them
Kept(old, new, fields) ==
  \A f \in fields : /\ f \in DOMAIN old <=> f \in DOMAIN new
                    /\ f \in DOMAIN old => old[f] = new[f]

\* the merge of updateTask, as a step
TaskUpdateMerges ==
  (ret'.op = "updateTask" /\ ret'.result.outcome = "value") =>
    (/\ taskFiles'[ret'.arg.id].kind = "json"
     /\ Kept(taskFiles[ret'.arg.id].data, taskFiles'[ret'.arg.id].data,
             ((TaskFields \ DOMAIN ret'.arg.args) \cup {"id", "created"}) \ {"updated"})
     /\ taskFiles'[ret'.arg.id].data.updated = clock)

\* the merge of updateProject, as a step
ProjectUpdateMerges ==
  (ret'.op = "updateProject" /\ ret'.result.outcome = "value") =>
    (/\ projectFiles'[ret'.arg.id].kind = "json"
     /\ Kept(projectFiles[ret'.arg.id].data, projectFiles'[ret'.arg.id].data,
             ((ProjectFields \ DOMAIN ret'.arg.args) \cup {"id", "created"}) \ {"updated"})
     /\ projectFiles'[ret'.arg.id].data.updated = clock)

\* C4: a successful updateTask / updateProject keeps every field the request
\* omits, keeps id and created whatever the request holds, and sets updated to now
C4_UpdateMerges == [][TaskUpdateMerges /\ ProjectUpdateMerges]_vars

\* an update whose request carries a created value has been applied, later than
\* the creation
C4_Witness ==
  /\ Returned("updateTask")
  /\ "created" \in DOMAIN ret.arg.args
  /\ taskFiles[ret.arg.id].data.updated > taskFiles[ret.arg.id].data.created

\* C5: getProject of the id createProject returned yields the returned project,
\* field by field; created = updated, status = planning, and id and timestamps
\* are the store's, not the request's
C5_CreateThenGet ==
  Returned("createProject") =>
    LET project == ret.result.value
        got == StorageGetProject(projectFiles, Val(project.id))
    IN  /\ got.outcome = "value"
        /\ \A f \in ProjectFields : got.value[f] = project[f]
        /\ project.created = project.updated
        /\ project.status = Some("planning")
        /\ project.id = Some(nextId - 1)
        /\ project.created = Some(clock)

\* a project created from a request that carries id, created and status, with
\* repository present and documentation absent
C5_Witness ==
  /\ Returned("createProject")
  /\ {"id", "created", "status"} \subseteq DOMAIN ret.arg
  /\ StorageGetProject(projectFiles, Val(ret.result.value.id)).value.repository # None
  /\ StorageGetProject(projectFiles, Val(ret.result.value.id)).value.documentation = None

\* a stored file that does not parse, or parses to a status outside the enum
Corrupt(f, statuses) ==
  f.kind = "garbage" \/ (f.kind = "json" /\ f.data.status \notin statuses)

Intact(f, statuses) == f.kind = "json" /\ f.data.status \in statuses

\* the ids of a sequence of summaries or entities, as a set
ReturnedIds(entities) == {Val(entities[i].id) : i \in DOMAIN entities}

\* C7: with one corrupt record and at least one valid record stored, listTasks /
\* listProjects succeeds and returns exactly the valid records (of the filter)
C7_ListingSkipsCorrupt ==
  /\ (/\ ret.op = "listTasks"
      /\ DOMAIN ret.arg = {"projectId"}
      /\ Cardinality({i \in Ids : Corrupt(taskFiles[i], TaskStatus)}) = 1
      /\ \E i \in Ids : Intact(taskFiles[i], TaskStatus))
       => (/\ ret.result.outcome = "value"
           /\ ReturnedIds(ret.result.value) =
                {i \in Ids : Intact(taskFiles[i], TaskStatus)
                             /\ taskFiles[i].data.projectId = ret.arg.projectId})
  /\ (/\ ret.op = "listProjects"
      /\ ret.arg = NoData
      /\ Cardinality({i \in Ids : Corrupt(projectFiles[i], ProjectStatus)}) = 1
      /\ \E i \in Ids : Intact(projectFiles[i], ProjectStatus))
       => (/\ ret.result.outcome = "value"
           /\ ReturnedIds(ret.result.value) = {i \in Ids : Intact(projectFiles[i], ProjectStatus)})

\* C8: getTask / getProject return null exactly for an id without a file, and
\* throw for a file that does not parse or does not satisfy the schema
C8_AbsentIsNullCorruptThrows ==
  /\ ret.op = "getTask"
       => /\ ReadFile(taskFiles, ret.arg.id).kind = "absent" => ret.result = Null
          /\ Corrupt(ReadFile(taskFiles, ret.arg.id), TaskStatus) => ret.result.outcome = "error"
  /\ ret.op = "getProject"
       => /\ ReadFile(projectFiles, ret.arg.id).kind = "absent" => ret.result = Null
          /\ Corrupt(ReadFile(projectFiles, ret.arg.id), ProjectStatus)
               => ret.result.outcome = "error"

\* getTask of a record whose JSON parses but whose status is outside the enum
C8_Witness ==
  /\ ret.op = "getTask"
  /\ ReadFile(taskFiles, ret.arg.id).kind = "json"
  /\ ret.result = Throw("ZodError")

C10_MissingParentFails ==
  [][(ret'.op = "decomposeTask" /\ ReadFile(taskFiles, ret'.arg.taskId).kind = "absent")
       => (/\ ret'.result = Throw("Parent task not found")
           /\ taskFiles' = taskFiles
           /\ projectFiles' = projectFiles
           /\ nextId' = nextId)]_vars

\* a decomposeTask with a full list of subtasks was refused for a missing parent
\* while the store holds tasks
C10_Witness ==
  /\ ret.op = "decomposeTask"
  /\ ReadFile(taskFiles, ret.arg.taskId).kind = "absent"
  /\ Len(ret.arg.subtasks) = MaxSubtasks
  /\ ret.result.outcome = "error"
  /\ \E i \in Ids : taskFiles[i].kind = "json"

\* what a complete record file yields to getTask / getProject
ReadOf(kind, f) ==
  IF f.kind = "absent" THEN Null
  ELSE IF kind = "task" THEN ParseTaskFile(f) ELSE ParseProjectFile(f)

\* C6: a read that runs while a record is being written sees the complete old
\* record or the complete new one: getTask / getProject of that id return one of
\* the two, and a listing does not fail
C6_ReadsSeeOldOrNew ==
  pending # Idle =>
    /\ (ret.op = "getTask" /\ pending.kind = "task" /\ ret.arg.id = pending.id)
         => ret.result \in {ReadOf("task", pending.old), ReadOf("task", pending.content)}
    /\ (ret.op = "getProject" /\ pending.kind = "project" /\ ret.arg.id = pending.id)
         => ret.result \in {ReadOf("project", pending.old), ReadOf("project", pending.content)}
    /\ (ret.op = "listTasks" /\ pending.kind = "task") => ret.result.outcome = "value"
    /\ (ret.op = "listProjects" /\ pending.kind = "project") => ret.result.outcome = "value"

\* a task entity is the subtask decomposeTask derives from a parent and a specification
DerivedFrom(c, parent, parentId, spec) ==
  /\ c.projectId = parent.projectId
  /\ c.status = Some("todo")
  /\ c.dependencies = Some(<<parentId>>)
  /\ c.assignee = parent.assignee
  /\ c.tags = parent.tags
  /\ c.title = Some(spec.title)

\* C11: every task file a decomposeTask creates has the parent's projectId, status
\* todo, dependencies [parentId] and the parent's assignee and tags as stored when
\* the call was made; the call returns the created tasks in the order of the
\* specifications; and a later updateTask of the parent changes no other task
C11_SubtasksDeriveFromParent ==
  [][/\ ret'.op = "decomposeTask" =>
          LET parentId == ret'.arg.taskId
              specs == ret'.arg.subtasks
              created == {i \in Ids : taskFiles[i].kind = "absent" /\ taskFiles'[i].kind # "absent"}
          IN  /\ \A i \in created :
                   /\ taskFiles'[i].kind = "json"
                   /\ \E k \in 1 .. Len(specs) :
                        DerivedFrom(ParseAs(TaskFields, taskFiles'[i].data),
                                    ParseAs(TaskFields, taskFiles[parentId].data), parentId, specs[k])
              /\ ret'.result.outcome = "value" =>
                   /\ Len(ret'.result.value) = Len(specs)
                   /\ created = SeqRange(IdsOf(ret'.result.value))
                   /\ \A k \in 1 .. Len(specs) :
                        /\ DerivedFrom(ret'.result.value[k],
                                       ParseAs(TaskFields, taskFiles[parentId].data), parentId, specs[k])
                        /\ taskFiles'[Val(ret'.result.value[k].id)] = Json(Stringify(ret'.result.value[k]))
     /\ ret'.op = "updateTask" =>
          \A i \in Ids \ {ret'.arg.id} : taskFiles'[i] = taskFiles[i]]_vars

\* a parent was decomposed into two subtasks and updated afterwards: its assignee
\* is the new one, the subtasks still carry the one copied at decomposition
C11_Witness ==
  \E p \in Ids :
    /\ Len(decomposed[p]) >= 2
    /\ taskFiles[p].kind = "json"
    /\ taskFiles[p].data.assignee = "kim"
    /\ \A c \in SeqRange(decomposed[p]) :
         /\ taskFiles[c].kind = "json"
         /\ taskFiles[c].data.assignee = "sam"
         /\ taskFiles[c].data.dependencies = <<p>>

\* the first write of the task file of an id has completed
Persisted(id) ==
  /\ taskFiles[id].kind # "absent"
  /\ ~(pending.kind = "task" /\ pending.id = id /\ pending.old = Absent)

\* C12: in every state during and after a decomposeTask, each id in the subtasks
\* of a stored parent is the id of a task file whose write has completed; the
\* parent is rewritten when no specification is left and every created subtask
\* is persisted, and it gets the clock reading of that moment as updated
C12_ParentWrittenLast ==
  [][/\ \A p \in Ids :
          taskFiles'[p].kind = "json" =>
            \A c \in SeqRange(taskFiles'[p].data.subtasks) : Persisted(c)'
     /\ (pending = Idle /\ pending'.call.op = "decomposeTask") =>
          /\ job.rest = <<>>
          /\ \A c \in SeqRange(IdsOf(job.subtasks)) : Persisted(c)
          /\ SeqRange(IdsOf(job.subtasks)) \subseteq SeqRange(pending'.content.data.subtasks)
          /\ pending'.content.data.updated = clock]_vars

\* a decomposeTask has written a subtask and is writing the parent, whose file
\* on disk is not yet the new one, at a later clock reading than the parent had
C12_Witness ==
  /\ pending.call.op = "decomposeTask"
  /\ Len(pending.call.result.value) >= 1
  /\ \A c \in SeqRange(IdsOf(pending.call.result.value)) : taskFiles[c].kind = "json"
  /\ pending.old.kind = "json"
  /\ pending.content.data.updated > pending.old.data.updated

\* the position of the first specification saveTask rejects, 0 if there is none
FirstRejected(specs) ==
  LET bad == {k \in 1 .. Len(specs) : specs[k].priority \notin Priority}
  IN  IF bad = {} THEN 0 ELSE CHOOSE k \in bad : \A j \in bad : k <= j

\* C13: when the save of the k-th subtask of a decomposeTask throws, the call
\* throws that error, the k-1 subtasks saved before it are on disk, and no other
\* file has changed: the parent file is the one from before the call
C13_NoRollback ==
  [][(/\ ret'.op = "decomposeTask"
      /\ StorageGetTask(taskFiles, ret'.arg.taskId).outcome = "value"
      /\ FirstRejected(ret'.arg.subtasks) > 0)
       => LET specs == ret'.arg.subtasks
              k == FirstRejected(specs)
              created == {i \in Ids : taskFiles[i].kind = "absent" /\ taskFiles'[i].kind # "absent"}
          IN  /\ ret'.result = Throw("ZodError")
              /\ created = nextId .. (nextId + k - 2)
              /\ \A j \in 1 .. (k - 1) :
                   /\ taskFiles'[nextId + j - 1].kind = "json"
                   /\ taskFiles'[nextId + j - 1].data.title = specs[j].title
                   /\ taskFiles'[nextId + j - 1].data.dependencies = <<ret'.arg.taskId>>
              /\ \A i \in Ids \ created : taskFiles'[i] = taskFiles[i]
              /\ decomposed' = decomposed]_vars

\* a decomposeTask failed at its last subtask after saving the ones before it: they
\* are stored, depend on the parent, and the parent does not list them
C13_Witness ==
  /\ ret.op = "decomposeTask"
  /\ ret.result = Throw("ZodError")
  /\ Len(ret.arg.subtasks) = MaxSubtasks
  /\ taskFiles[ret.arg.taskId].kind = "json"
  /\ Cardinality({c \in Ids : /\ taskFiles[c].kind = "json"
                              /\ taskFiles[c].data.dependencies = <<ret.arg.taskId>>
                              /\ c \notin SeqRange(taskFiles[ret.arg.taskId].data.subtasks)})
       >= MaxSubtasks - 1

\* C14: deleteProject of a stored project removes the tasks of the project it can
\* remove and then the project, whatever fails in the cascade: it returns true,
\* the project file is gone, and no readable task of the project is left
C14_CascadeIsBestEffort ==
  [][(ret'.op = "deleteProject" /\ ReadFile(projectFiles, ret'.arg.id).kind # "absent")
       => (/\ ret'.result = Value(TRUE)
           /\ ReadFile(projectFiles', ret'.arg.id).kind = "absent"
           /\ \A i \in Ids :
                (Intact(taskFiles[i], TaskStatus) /\ taskFiles[i].data.projectId = ret'.arg.id)
                  => taskFiles'[i].kind = "absent")]_vars

\* C15: every task file created by createTask or decomposeTask carries a projectId
\* that names a stored project when the task is created; a createTask whose
\* projectId names no stored project fails and writes nothing
C15_TasksReferenceProjects ==
  [][ret'.op \in {"createTask", "decomposeTask"} =>
       /\ \A i \in Ids :
            (taskFiles[i].kind = "absent" /\ taskFiles'[i].kind = "json")
              => ReadFile(projectFiles, taskFiles'[i].data.projectId).kind # "absent"
       /\ (ret'.op = "createTask" /\ ReadFile(projectFiles, ret'.arg.projectId).kind = "absent")
            => (ret'.result.outcome = "error" /\ taskFiles' = taskFiles)]_vars

\* the tags of a stored record, as a set
TagsOf(f) == IF "tags" \in DOMAIN f.data THEN SeqRange(f.data.tags) ELSE {}

\* C16: a listing with a tags filter returns exactly the stored entities (of the
\* other criteria of the filter) whose tags include every tag of the filter, in
\* whatever order the entity lists them; an entity without tags, or lacking one
\* of the tags, is not returned
C16_TagsFilterIsAnd ==
  /\ (Returned("listTasks") /\ "tags" \in DOMAIN ret.arg) =>
       ReturnedIds(ret.result.value) =
         {i \in Ids : /\ taskFiles[i].kind = "json"
                      /\ SeqRange(ret.arg.tags) \subseteq TagsOf(taskFiles[i])}
  /\ (Returned("listProjects") /\ "tags" \in DOMAIN ret.arg) =>
       ReturnedIds(ret.result.value) =
         {i \in Ids : /\ projectFiles[i].kind = "json"
                      /\ SeqRange(ret.arg.tags) \subseteq TagsOf(projectFiles[i])}

\* listProjects with tags a, b returned a project stored with tags b, a and left
\* out a stored project that has no tag
C16_Witness ==
  /\ Returned("listProjects")
  /\ "tags" \in DOMAIN ret.arg
  /\ ret.arg.tags = <<"a", "b">>
  /\ \E i \in ReturnedIds(ret.result.value) : projectFiles[i].data.tags = <<"b", "a">>
  /\ \E i \in Ids \ ReturnedIds(ret.result.value) :
       projectFiles[i].kind = "json" /\ TagsOf(projectFiles[i]) = {}

\* a sequence of entities or summaries is in non-increasing order of updated
NonIncreasing(entities) ==
  \A i \in 1 .. (Len(entities) - 1) : Val(entities[i].updated) >= Val(entities[i + 1].updated)

\* C17: every sequence listProjects or listTasks returns, under any filter, is in
\* non-increasing order of updated
C17_ListingsNewestFirst ==
  (Returned("listProjects") \/ Returned("listTasks")) => NonIncreasing(ret.result.value)

\* a listing returned an older record, touched last, before a newer record
C17_Witness ==
  /\ Returned("listProjects") \/ Returned("listTasks")
  /\ Len(ret.result.value) >= 2
  /\ Val(ret.result.value[1].id) < Val(ret.result.value[2].id)
  /\ Val(ret.result.value[1].updated) > Val(ret.result.value[2].updated)

\* the stored tasks of a project that have a due date and are not done
OpenDeadlinesOf(projectId) ==
  {i \in DOMAIN taskFiles : /\ taskFiles[i].kind = "json"
                            /\ taskFiles[i].data.projectId = projectId
                            /\ "dueDate" \in DOMAIN taskFiles[i].data
                            /\ taskFiles[i].data.status # "done"}

\* C18: upcomingDeadlines of a report lists tasks of the project that have a due
\* date and are not done, each once and as taskId, title and dueDate only, in
\* ascending order of dueDate; it lists all of them up to 5, and when there are
\* more, the 5 it lists are due no later than any it leaves out
C18_UpcomingDeadlines ==
  Returned("getProjectStatus") =>
    LET open == OpenDeadlinesOf(ret.arg.id)
        due == ret.result.value.upcomingDeadlines
        listed == {Val(due[k].taskId) : k \in DOMAIN due}
    IN  /\ Len(due) = (IF Cardinality(open) < 5 THEN Cardinality(open) ELSE 5)
        /\ Cardinality(listed) = Len(due)
        /\ listed \subseteq open
        /\ \A k \in DOMAIN due :
             due[k] = [taskId |-> due[k].taskId,
                       title |-> Some(taskFiles[Val(due[k].taskId)].data.title),
                       dueDate |-> Some(taskFiles[Val(due[k].taskId)].data.dueDate)]
        /\ \A k \in 1 .. (Len(due) - 1) : Val(due[k].dueDate) <= Val(due[k + 1].dueDate)
        /\ \A i \in open \ listed : \A k \in DOMAIN due :
             Val(due[k].dueDate) <= taskFiles[i].data.dueDate

\* a report of a project with more than five open deadlines, of two dates, lists five
C18_Witness ==
  /\ Returned("getProjectStatus")
  /\ Cardinality(OpenDeadlinesOf(ret.arg.id)) > 5
  /\ Len(ret.result.value.upcomingDeadlines) = 5
  /\ \E i, j \in OpenDeadlinesOf(ret.arg.id) : taskFiles[i].data.dueDate < taskFiles[j].data.dueDate

\* the stored tasks of a project in a tasks directory
TasksIn(files, projectId) ==
  {i \in DOMAIN files : files[i].kind = "json" /\ files[i].data.projectId = projectId}

\* the sum of an hours field over stored tasks, a task without the field adding 0
RECURSIVE HoursOver(_, _, _)
HoursOver(files, ids, field) ==
  IF ids = {} THEN 0
  ELSE LET i == CHOOSE x \in ids : TRUE
       IN  (IF field \in DOMAIN files[i].data THEN files[i].data[field] ELSE 0)
           + HoursOver(files, ids \ {i}, field)

\* C19: the totals of a report are the sums of estimatedHours and actualHours over
\* the stored tasks of the project, an absent value counting 0; and an updateTask
\* with status done and actualHours 5 on a task that was not done raises the
\* completedTasks of the report of its project by one and puts the 5 into
\* totalActualHours in place of the hours the task had
C19_TotalsAreSums ==
  [][/\ (ret'.op = "getProjectStatus" /\ ret'.result.outcome = "value") =>
          /\ ret'.result.value.totalEstimatedHours =
               HoursOver(taskFiles', TasksIn(taskFiles', ret'.arg.id), "estimatedHours")
          /\ ret'.result.value.totalActualHours =
               HoursOver(taskFiles', TasksIn(taskFiles', ret'.arg.id), "actualHours")
     /\ (/\ ret'.op = "updateTask"
         /\ ret'.result.outcome = "value"
         /\ "status" \in DOMAIN ret'.arg.args
         /\ "actualHours" \in DOMAIN ret'.arg.args
         /\ ret'.arg.args.status = "done"
         /\ taskFiles[ret'.arg.id].data.status # "done") =>
          LET before == GetProjectStatus(projectFiles, taskFiles, taskFiles[ret'.arg.id].data.projectId)
              after == GetProjectStatus(projectFiles', taskFiles', taskFiles[ret'.arg.id].data.projectId)
          IN  before.outcome = "value" =>
                /\ after.outcome = "value"
                /\ after.value.project.completedTasks = before.value.project.completedTasks + 1
                /\ after.value.totalActualHours =
                     before.value.totalActualHours - taskFiles[ret'.arg.id].data.actualHours
                     + ret'.arg.args.actualHours]_vars

\* a report after such an update: a task of the project is done with 5 hours
\* booked, another has no estimate, and the totals are not zero
C19_Witness ==
  /\ Returned("getProjectStatus")
  /\ ret.result.value.project.completedTasks >= 1
  /\ ret.result.value.totalActualHours >= 5
  /\ ret.result.value.totalEstimatedHours > 0
  /\ \E i \in TasksOf(ret.arg.id) : "estimatedHours" \notin DOMAIN taskFiles[i].data

\* C20: deleteTask and deleteProject return true when a record of the id exists
\* and false, without an error, when none does; either way no record of the id is
\* left, so a second delete of the same id returns false
C20_DeleteReportsExistence ==
  [][/\ ret'.op = "deleteTask" =>
          /\ ret'.result = Value(ReadFile(taskFiles, ret'.arg.id).kind # "absent")
          /\ ReadFile(taskFiles', ret'.arg.id).kind = "absent"
     /\ ret'.op = "deleteProject" =>
          /\ ret'.result = Value(ReadFile(projectFiles, ret'.arg.id).kind # "absent")
          /\ ReadFile(projectFiles', ret'.arg.id).kind = "absent"]_vars

\* a record file that parses carries created <= updated
CreatedBeforeUpdated(f) == f.kind = "json" => f.data.created <= f.data.updated

\* C21: every stored project and task has created <= updated
C21_CreatedBeforeUpdated ==
  \A i \in Ids : CreatedBeforeUpdated(projectFiles[i]) /\ CreatedBeforeUpdated(taskFiles[i])

\* a task was decomposed at a later clock reading than it was created at: it
\* carries created < updated, its subtasks created = updated
C21_Witness ==
  \E p \in Ids :
    /\ decomposed[p] # <<>>
    /\ taskFiles[p].kind = "json"
    /\ taskFiles[p].data.created < taskFiles[p].data.updated
    /\ \A c \in SeqRange(decomposed[p]) :
         taskFiles[c].kind = "json" /\ taskFiles[c].data.created = taskFiles[c].data.updated

\* a request carries a status or priority outside the enum, or (a create_task)
\* lacks a required field
BadEnum(args, statuses) ==
  \/ ("status" \in DOMAIN args /\ args.status \notin statuses)
  \/ ("priority" \in DOMAIN args /\ args.priority \notin Priority)

LacksRequired(args) == {"title", "description", "priority"} \ DOMAIN args # {}

ToolOps ==
  {"createProject", "listProjects", "getProject", "updateProject", "createTask", "listTasks",
   "getTask", "updateTask", "decomposeTask", "getProjectStatus", "unknownTool"}

\* a file of the directory a listing reads does not parse
SomeCorrupt(files, statuses) == \E i \in DOMAIN files : Corrupt(files[i], statuses)

\* the call fails: an unknown tool, a decomposeTask without parent, a request the
\* schema rejects, or a read of a file that does not parse
CallFails(call) ==
  \/ call.op = "unknownTool"
  \/ call.op = "decomposeTask" /\ ReadFile(taskFiles, call.arg.taskId).kind = "absent"
  \/ call.op = "decomposeTask" /\ Corrupt(ReadFile(taskFiles, call.arg.taskId), TaskStatus)
  \/ call.op = "createTask" /\ (BadEnum(call.arg, TaskStatus) \/ LacksRequired(call.arg))
  \/ call.op = "getTask" /\ Corrupt(ReadFile(taskFiles, call.arg.id), TaskStatus)
  \/ call.op = "getProject" /\ Corrupt(ReadFile(projectFiles, call.arg.id), ProjectStatus)
  \/ call.op = "updateTask" /\ Corrupt(ReadFile(taskFiles, call.arg.id), TaskStatus)
  \/ call.op = "updateTask" /\ Intact(ReadFile(taskFiles, call.arg.id), TaskStatus)
       /\ BadEnum(call.arg.args, TaskStatus)
  \/ call.op = "updateProject" /\ Corrupt(ReadFile(projectFiles, call.arg.id), ProjectStatus)
  \/ call.op = "updateProject" /\ Intact(ReadFile(projectFiles, call.arg.id), ProjectStatus)
       /\ BadEnum(call.arg.args, ProjectStatus)
  \/ call.op = "listTasks" /\ SomeCorrupt(taskFiles, TaskStatus)
  \/ call.op = "listProjects" /\ SomeCorrupt(projectFiles, ProjectStatus)
  \/ call.op = "listProjects" /\ SomeCorrupt(taskFiles, TaskStatus) /\ DOMAIN call.arg = {}
       /\ \E i \in DOMAIN projectFiles : projectFiles[i].kind # "absent"

\* C23: a tool call that fails is answered with isError: true and the text
\* "Error: <message>", which no answer to a successful call carries; after the
\* answer to a failed call the server waits for the next call as before, with the
\* store as the failed call left it, and serves it
C23_FailuresAreAnswered ==
  /\ [][/\ (ret'.op \in ToolOps /\ CallFails(ret')) =>
             /\ ToolResponse(ret'.result).isError
             /\ ToolResponse(ret'.result).text = "Error: " \o ret'.result.error
             /\ ret'.result.error # ""
        /\ (ret'.op \in ToolOps /\ ret'.result.outcome # "error") =>
             /\ ~ToolResponse(ret'.result).isError
             /\ ToolResponse(ret'.result).payload = ret'.result
        /\ ret.result.outcome = "error" =>
             /\ ret' = NoCall
             /\ <<projectFiles, taskFiles, nextId, clock>>' = <<projectFiles, taskFiles, nextId, clock>>]_vars
  /\ [](Waiting => ENABLED GetTask)

\* a decomposeTask of a task that is not stored has been answered with the
\* marked text "Error: Parent task not found" while the store holds a task
C23_Witness ==
  /\ ret.op = "decomposeTask"
  /\ ret.result.outcome = "error"
  /\ ToolResponse(ret.result).isError
  /\ ToolResponse(ret.result).text = "Error: Parent task not found"
  /\ \E t \in Ids : taskFiles[t].kind = "json"

\* the ids a stored task lists as its subtasks
SubtasksOf(f) == IF f.kind = "json" THEN SeqRange(f.data.subtasks) ELSE {}

\* C24: deleteTask(T) removes the file of T and nothing else: every other task
\* file and every project file is as before, so the subtasks of T are still
\* stored and a parent that lists T still lists it
C24_DeleteTaskOnlyUnlinks ==
  [][ret'.op = "deleteTask" =>
       LET T == ret'.arg.id
       IN  /\ projectFiles' = projectFiles
           /\ \A i \in Ids \ {T} : taskFiles'[i] = taskFiles[i]
           /\ T \in Ids => taskFiles'[T] = Absent
           /\ \A c \in (IF T \in Ids THEN SubtasksOf(taskFiles[T]) ELSE {}) \ {T} :
                taskFiles'[c].kind = taskFiles[c].kind
           /\ \A p \in Ids \ {T} :
                T \in SubtasksOf(taskFiles[p]) => T \in SubtasksOf(taskFiles'[p])]_vars

\* a task that was a subtask and had a subtask of its own has been deleted: its
\* parent still lists it, and its own subtask is still stored
C24_Witness ==
  /\ ret.op = "deleteTask"
  /\ ret.result = Value(TRUE)
  /\ taskFiles[ret.arg.id] = Absent
  /\ \E p \in Ids : ret.arg.id \in SubtasksOf(taskFiles[p])
  /\ decomposed[ret.arg.id] # <<>>
  /\ \A c \in SeqRange(decomposed[ret.arg.id]) : taskFiles[c].kind = "json"

\* a project summary counts the stored tasks of its project
CountsStoredTasks(summary) ==
  /\ summary.taskCount = Cardinality(TasksOf(Val(summary.id)))
  /\ summary.completedTasks = Cardinality(DoneTasksOf(Val(summary.id)))
  /\ summary.completedTasks <= summary.taskCount

\* C25: in every summary returned by listProjects and in the summary of a
\* getProjectStatus report, taskCount is the number of stored tasks of the project
\* and completedTasks the number of those with status done, as the store is at the
\* call, whatever the project's tasks list holds; completedTasks <= taskCount
C25_CountsAreRecomputed ==
  /\ Returned("listProjects") =>
       \A k \in DOMAIN ret.result.value : CountsStoredTasks(ret.result.value[k])
  /\ Returned("getProjectStatus") => CountsStoredTasks(ret.result.value.project)

\* listProjects has returned a summary with two tasks, one of them done, of a
\* project whose own tasks list is empty
C25_Witness ==
  /\ Returned("listProjects")
  /\ \E k \in DOMAIN ret.result.value :
       LET summary == ret.result.value[k]
       IN  /\ summary.taskCount = 2
           /\ summary.completedTasks = 1
           /\ projectFiles[Val(summary.id)].data.tasks = <<>>

TaskLinks == {"projectId", "subtasks", "dependencies", "tags"}
ProjectLinks == {"prd", "tasks", "documentation"}

\* C27: a successful updateTask leaves projectId, subtasks, dependencies and tags
\* of the stored task as they were, and a successful updateProject leaves prd,
\* tasks and documentation of the stored project as they were, also when the
\* request carries them; over every step of the server, these fields of a stored
\* record stay the same, but for the subtasks of the parent of a decomposeTask
C27_UpdatesLeaveLinks ==
  [][/\ (ret'.op = "updateTask" /\ ret'.result.outcome = "value") =>
          /\ taskFiles'[ret'.arg.id].kind = "json"
          /\ Kept(taskFiles[ret'.arg.id].data, taskFiles'[ret'.arg.id].data, TaskLinks)
     /\ (ret'.op = "updateProject" /\ ret'.result.outcome = "value") =>
          /\ projectFiles'[ret'.arg.id].kind = "json"
          /\ Kept(projectFiles[ret'.arg.id].data, projectFiles'[ret'.arg.id].data, ProjectLinks)
     /\ \A i \in Ids :
          (taskFiles[i].kind = "json" /\ taskFiles'[i].kind = "json") =>
            /\ Kept(taskFiles[i].data, taskFiles'[i].data, TaskLinks \ {"subtasks"})
            /\ Kept(taskFiles[i].data, taskFiles'[i].data, {"subtasks"})
                 \/ (ret'.op = "decomposeTask" /\ ret'.arg.taskId = i)
     /\ \A i \in Ids :
          (projectFiles[i].kind = "json" /\ projectFiles'[i].kind = "json") =>
            Kept(projectFiles[i].data, projectFiles'[i].data, ProjectLinks)]_vars

\* an update_task whose request carries an empty subtasks list, another projectId
\* and other tags has been applied to a decomposed task: the task still lists its
\* subtasks and has its tags and projectId
C27_Witness ==
  /\ Returned("updateTask")
  /\ {"subtasks", "projectId", "dependencies", "tags"} \subseteq DOMAIN ret.arg.args
  /\ taskFiles[ret.arg.id].kind = "json"
  /\ taskFiles[ret.arg.id].data.status = "done"
  /\ taskFiles[ret.arg.id].data.subtasks # <<>>
  /\ taskFiles[ret.arg.id].data.subtasks # ret.arg.args.subtasks
  /\ taskFiles[ret.arg.id].data.tags # ret.arg.args.tags
  /\ taskFiles[ret.arg.id].data.projectId # ret.arg.args.projectId

\* C28: deleteProject of an id without a project record returns false and changes
\* no file: the tasks that carry the id as projectId are still stored, and
\* listTasks({projectId: id}) answers as before the call, with exactly those tasks
\* when every task file parses
C28_DeleteOfNoProject ==
  [][(ret'.op = "deleteProject" /\ ReadFile(projectFiles, ret'.arg.id).kind = "absent") =>
       LET filter == [projectId |-> ret'.arg.id]
       IN  /\ ret'.result = Value(FALSE)
           /\ projectFiles' = projectFiles
           /\ taskFiles' = taskFiles
           /\ TasksIn(taskFiles', ret'.arg.id) = TasksIn(taskFiles, ret'.arg.id)
           /\ ListTasks(taskFiles', filter) = ListTasks(taskFiles, filter)
           /\ ~SomeCorrupt(taskFiles, TaskStatus) =>
                /\ ListTasks(taskFiles', filter).outcome = "value"
                /\ ReturnedIds(ListTasks(taskFiles', filter).value)
                     = TasksIn(taskFiles, ret'.arg.id)]_vars

\* deleteProject of an id without a project record has returned false while
\* tasks with that projectId are stored and listed
C28_Witness ==
  /\ ret.op = "deleteProject"
  /\ ret.result = Value(FALSE)
  /\ ReadFile(projectFiles, ret.arg.id).kind = "absent"
  /\ Cardinality(TasksOf(ret.arg.id)) >= 2
  /\ ListTasks(taskFiles, [projectId |-> ret.arg.id]).outcome = "value"
  /\ ReturnedIds(ListTasks(taskFiles, [projectId |-> ret.arg.id]).value) = TasksOf(ret.arg.id)
====
